---------------------------- MODULE Spec2Model ----------------------------
(***************************************************************************)
(* A model of app.py: the fish-plant scraper, the one-hour county-list     *)
(* cache, the geocoder with its process-lifetime cache, the county-seat    *)
(* fallback table and the three Flask views (index, results, map_view).    *)
(*                                                                         *)
(* Python values are encoded as follows.                                   *)
(*   str          a sequence of code points, "El" = <<69, 108>>            *)
(*   None / x     an optional value: None = <<>>, a present x = <<x>>      *)
(*   (lat, lon)   a pair of integers, the coordinate times 10^4            *)
(*   date         <<year, month, day>>                                     *)
(*   dict         a function (GEOCODE_CACHE) or an insertion-ordered       *)
(*                sequence of <<key, value>> pairs (results)               *)
(*   HTML         a page is a sequence of tables, a table a sequence of    *)
(*                <tr> rows, a row a sequence of <td> cells, a cell a      *)
(*                sequence of child nodes [name, text]; name = "" is a     *)
(*                text node, any other name is that tag around one text    *)
(***************************************************************************)
EXTENDS Integers, Sequences, FiniteSets, TLC

(***************************************************************************)
(* Optional values and Python truthiness.                                  *)
(***************************************************************************)
None == <<>>

Some(x) == <<x>>

\* bool(x) of an optional str, list or tuple: None and the empty value are falsy
Truthy(opt) == opt # None /\ opt[1] # <<>>

\* The element of a one-element set.  The({e(x) : x \in {v}}) is e(v) with v
\* worked out once, however often e uses it.
The(S) == CHOOSE x \in S : TRUE

(***************************************************************************)
(* str methods used by app.py, on code-point sequences (ASCII).            *)
(***************************************************************************)
IsUpper(c) == c >= 65 /\ c <= 90

IsLower(c) == c >= 97 /\ c <= 122

IsSpace(c) == c \in {9, 10, 11, 12, 13, 32}

LowerChar(c) == IF IsUpper(c) THEN c + 32 ELSE c

UpperChar(c) == IF IsLower(c) THEN c - 32 ELSE c

\* str.lower()
Lower(s) == [i \in 1..Len(s) |-> LowerChar(s[i])]

\* str.title(): a cased character is upper-cased when it follows an uncased
\* one (or starts the string) and lower-cased when it follows a cased one
Title(s) ==
  [i \in 1..Len(s) |->
     IF i > 1 /\ (IsUpper(s[i-1]) \/ IsLower(s[i-1]))
       THEN LowerChar(s[i])
       ELSE UpperChar(s[i])]

RECURSIVE LStrip(_)
LStrip(s) == IF s # <<>> /\ IsSpace(Head(s)) THEN LStrip(Tail(s)) ELSE s

RECURSIVE RStrip(_)
RStrip(s) ==
  IF s # <<>> /\ IsSpace(s[Len(s)]) THEN RStrip(SubSeq(s, 1, Len(s) - 1)) ELSE s

\* str.strip()
Strip(s) == RStrip(LStrip(s))

\* s.startswith(sub)
StartsWith(s, sub) == Len(sub) <= Len(s) /\ SubSeq(s, 1, Len(sub)) = sub

\* s.find(sub) + 1: the position of the first occurrence, 0 when there is none
Find(s, sub) ==
  LET hits == {i \in 1..(Len(s) - Len(sub) + 1) : SubSeq(s, i, i + Len(sub) - 1) = sub}
  IN IF hits = {} THEN 0 ELSE CHOOSE i \in hits : \A j \in hits : i <= j

\* sub in s
Contains(s, sub) == Find(s, sub) # 0

\* s.replace(old, ""), old not empty: every occurrence, left to right
RECURSIVE ReplaceAll(_, _)
ReplaceAll(s, old) ==
  IF s = <<>> THEN <<>>
  ELSE IF StartsWith(s, old) THEN ReplaceAll(SubSeq(s, Len(old) + 1, Len(s)), old)
  ELSE <<Head(s)>> \o ReplaceAll(Tail(s), old)

\* s.split(sep)[0]
SplitFirst(s, sep) ==
  IF Contains(s, sep) THEN SubSeq(s, 1, Find(s, sep) - 1) ELSE s

\* a < b on str (and on dates): by the first position that differs, a proper
\* prefix first
StrLess(a, b) ==
  LET n == IF Len(a) < Len(b) THEN Len(a) ELSE Len(b)
      diff == {i \in 1..n : a[i] # b[i]}
  IN IF diff = {} THEN Len(a) < Len(b)
     ELSE LET k == CHOOSE i \in diff : \A j \in diff : i <= j
          IN a[k] < b[k]

\* sorted(...) / list.sort(key=...) of <<key, item>> pairs: ascending and stable
\* (an element goes after the smaller keys and after the equal keys before it)
SortPairs(pairs) ==
  LET n == Len(pairs)
      before(i) == {j \in 1..n : \/ StrLess(pairs[j][1], pairs[i][1])
                                 \/ j < i /\ ~StrLess(pairs[i][1], pairs[j][1])}
  IN [k \in 1..n |-> pairs[CHOOSE i \in 1..n : Cardinality(before(i)) = k - 1]]

\* sorted(list of str)
SortedList(seq) ==
  LET s == SortPairs([i \in 1..Len(seq) |-> <<seq[i], seq[i]>>])
  IN [i \in 1..Len(s) |-> s[i][2]]

\* sorted(set of str): the distinct elements, ascending
SortedSet(S) ==
  [k \in 1..Cardinality(S) |->
     CHOOSE x \in S : Cardinality({y \in S : StrLess(y, x)}) = k - 1]

COUNTY_SEATS ==
  <<
    << <<65,108,97,109,101,100,97>>, 377799, -1222827 >>,  \* Alameda
    << <<65,108,112,105,110,101>>, 385969, -1198210 >>,  \* Alpine
    << <<65,109,97,100,111,114>>, 383477, -1207741 >>,  \* Amador
    << <<66,117,116,116,101>>, 397285, -1218375 >>,  \* Butte
    << <<67,97,108,97,118,101,114,97,115>>, 381960, -1206805 >>,  \* Calaveras
    << <<67,111,108,117,115,97>>, 392143, -1220094 >>,  \* Colusa
    << <<67,111,110,116,114,97,32,67,111,115,116,97>>, 379735, -1220311 >>,  \* Contra Costa
    << <<68,101,108,32,78,111,114,116,101>>, 417542, -1242006 >>,  \* Del Norte
    << <<69,108,32,68,111,114,97,100,111>>, 387296, -1207985 >>,  \* El Dorado
    << <<70,114,101,115,110,111>>, 367378, -1197871 >>,  \* Fresno
    << <<71,108,101,110,110>>, 395200, -1221936 >>,  \* Glenn
    << <<72,117,109,98,111,108,100,116>>, 408021, -1241637 >>,  \* Humboldt
    << <<73,109,112,101,114,105,97,108>>, 328473, -1155694 >>,  \* Imperial
    << <<73,110,121,111>>, 366044, -1180625 >>,  \* Inyo
    << <<75,101,114,110>>, 353733, -1189854 >>,  \* Kern
    << <<75,105,110,103,115>>, 360726, -1198154 >>,  \* Kings
    << <<76,97,107,101>>, 389444, -1226264 >>,  \* Lake
    << <<76,97,115,115,101,110>>, 404163, -1206620 >>,  \* Lassen
    << <<76,111,115,32,65,110,103,101,108,101,115>>, 340522, -1182437 >>,  \* Los Angeles
    << <<77,97,100,101,114,97>>, 369613, -1200607 >>,  \* Madera
    << <<77,97,114,105,110>>, 379358, -1225311 >>,  \* Marin
    << <<77,97,114,105,112,111,115,97>>, 374849, -1199663 >>,  \* Mariposa
    << <<77,101,110,100,111,99,105,110,111>>, 393077, -1237995 >>,  \* Mendocino
    << <<77,101,114,99,101,100>>, 373022, -1204830 >>,  \* Merced
    << <<77,111,100,111,99>>, 414899, -1207243 >>,  \* Modoc
    << <<77,111,110,111>>, 379399, -1188800 >>,  \* Mono
    << <<77,111,110,116,101,114,101,121>>, 366002, -1218947 >>,  \* Monterey
    << <<78,97,112,97>>, 382975, -1222869 >>,  \* Napa
    << <<78,101,118,97,100,97>>, 392616, -1210180 >>,  \* Nevada
    << <<79,114,97,110,103,101>>, 337878, -1178531 >>,  \* Orange
    << <<80,108,97,99,101,114>>, 390620, -1207229 >>,  \* Placer
    << <<80,108,117,109,97,115>>, 399380, -1209033 >>,  \* Plumas
    << <<82,105,118,101,114,115,105,100,101>>, 339806, -1173755 >>,  \* Riverside
    << <<83,97,99,114,97,109,101,110,116,111>>, 385816, -1214944 >>,  \* Sacramento
    << <<83,97,110,32,66,101,110,105,116,111>>, 368454, -1213542 >>,  \* San Benito
    << <<83,97,110,32,66,101,114,110,97,114,100,105,110,111>>, 341083, -1172898 >>,  \* San Bernardino
    << <<83,97,110,32,68,105,101,103,111>>, 327157, -1171611 >>,  \* San Diego
    << <<83,97,110,32,70,114,97,110,99,105,115,99,111>>, 377749, -1224194 >>,  \* San Francisco
    << <<83,97,110,32,74,111,97,113,117,105,110>>, 379349, -1212730 >>,  \* San Joaquin
    << <<83,97,110,32,76,117,105,115,32,79,98,105,115,112,111>>, 352828, -1206596 >>,  \* San Luis Obispo
    << <<83,97,110,32,77,97,116,101,111>>, 375630, -1223255 >>,  \* San Mateo
    << <<83,97,110,116,97,32,66,97,114,98,97,114,97>>, 344208, -1196982 >>,  \* Santa Barbara
    << <<83,97,110,116,97,32,67,108,97,114,97>>, 373541, -1219552 >>,  \* Santa Clara
    << <<83,97,110,116,97,32,67,114,117,122>>, 369741, -1220308 >>,  \* Santa Cruz
    << <<83,104,97,115,116,97>>, 405865, -1223917 >>,  \* Shasta
    << <<83,105,101,114,114,97>>, 395920, -1203680 >>,  \* Sierra
    << <<83,105,115,107,105,121,111,117>>, 415900, -1226370 >>,  \* Siskiyou
    << <<83,111,108,97,110,111>>, 382682, -1220390 >>,  \* Solano
    << <<83,111,110,111,109,97>>, 384404, -1227141 >>,  \* Sonoma
    << <<83,116,97,110,105,115,108,97,117,115>>, 375585, -1209977 >>,  \* Stanislaus
    << <<83,117,116,116,101,114>>, 390646, -1216147 >>,  \* Sutter
    << <<84,101,104,97,109,97>>, 400240, -1222350 >>,  \* Tehama
    << <<84,114,105,110,105,116,121>>, 407359, -1229459 >>,  \* Trinity
    << <<84,117,108,97,114,101>>, 362072, -1188020 >>,  \* Tulare
    << <<84,117,111,108,117,109,110,101>>, 379625, -1202400 >>,  \* Tuolumne
    << <<86,101,110,116,117,114,97>>, 342805, -1192945 >>,  \* Ventura
    << <<89,111,108,111>>, 387585, -1217439 >>,  \* Yolo
    << <<89,117,98,97>>, 391371, -1215835 >>  \* Yuba
  >>

FALLBACK_COUNTIES ==
  <<
    <<65,108,97,109,101,100,97>>,  \* Alameda
    <<65,108,112,105,110,101>>,  \* Alpine
    <<65,109,97,100,111,114>>,  \* Amador
    <<66,117,116,116,101>>,  \* Butte
    <<67,97,108,97,118,101,114,97,115>>,  \* Calaveras
    <<67,111,108,117,115,97>>,  \* Colusa
    <<67,111,110,116,114,97,32,67,111,115,116,97>>,  \* Contra Costa
    <<68,101,108,32,78,111,114,116,101>>,  \* Del Norte
    <<69,108,32,68,111,114,97,100,111>>,  \* El Dorado
    <<70,114,101,115,110,111>>,  \* Fresno
    <<71,108,101,110,110>>,  \* Glenn
    <<72,117,109,98,111,108,100,116>>,  \* Humboldt
    <<73,109,112,101,114,105,97,108>>,  \* Imperial
    <<73,110,121,111>>,  \* Inyo
    <<75,101,114,110>>,  \* Kern
    <<75,105,110,103,115>>,  \* Kings
    <<76,97,107,101>>,  \* Lake
    <<76,97,115,115,101,110>>,  \* Lassen
    <<76,111,115,32,65,110,103,101,108,101,115>>,  \* Los Angeles
    <<77,97,100,101,114,97>>,  \* Madera
    <<77,97,114,105,110>>,  \* Marin
    <<77,97,114,105,112,111,115,97>>,  \* Mariposa
    <<77,101,110,100,111,99,105,110,111>>,  \* Mendocino
    <<77,101,114,99,101,100>>,  \* Merced
    <<77,111,100,111,99>>,  \* Modoc
    <<77,111,110,111>>,  \* Mono
    <<77,111,110,116,101,114,101,121>>,  \* Monterey
    <<78,97,112,97>>,  \* Napa
    <<78,101,118,97,100,97>>,  \* Nevada
    <<79,114,97,110,103,101>>,  \* Orange
    <<80,108,97,99,101,114>>,  \* Placer
    <<80,108,117,109,97,115>>,  \* Plumas
    <<82,105,118,101,114,115,105,100,101>>,  \* Riverside
    <<83,97,99,114,97,109,101,110,116,111>>,  \* Sacramento
    <<83,97,110,32,66,101,110,105,116,111>>,  \* San Benito
    <<83,97,110,32,66,101,114,110,97,114,100,105,110,111>>,  \* San Bernardino
    <<83,97,110,32,68,105,101,103,111>>,  \* San Diego
    <<83,97,110,32,70,114,97,110,99,105,115,99,111>>,  \* San Francisco
    <<83,97,110,32,74,111,97,113,117,105,110>>,  \* San Joaquin
    <<83,97,110,32,76,117,105,115,32,79,98,105,115,112,111>>,  \* San Luis Obispo
    <<83,97,110,32,77,97,116,101,111>>,  \* San Mateo
    <<83,97,110,116,97,32,66,97,114,98,97,114,97>>,  \* Santa Barbara
    <<83,97,110,116,97,32,67,108,97,114,97>>,  \* Santa Clara
    <<83,97,110,116,97,32,67,114,117,122>>,  \* Santa Cruz
    <<83,104,97,115,116,97>>,  \* Shasta
    <<83,105,101,114,114,97>>,  \* Sierra
    <<83,105,115,107,105,121,111,117>>,  \* Siskiyou
    <<83,111,108,97,110,111>>,  \* Solano
    <<83,111,110,111,109,97>>,  \* Sonoma
    <<83,116,97,110,105,115,108,97,117,115>>,  \* Stanislaus
    <<83,117,116,116,101,114>>,  \* Sutter
    <<84,101,104,97,109,97>>,  \* Tehama
    <<84,114,105,110,105,116,121>>,  \* Trinity
    <<84,117,108,97,114,101>>,  \* Tulare
    <<84,117,111,108,117,109,110,101>>,  \* Tuolumne
    <<86,101,110,116,117,114,97>>,  \* Ventura
    <<89,111,108,111>>,  \* Yolo
    <<89,117,98,97>>  \* Yuba
  >>

(***************************************************************************)
(* Dates: datetime.strptime(s, "%m/%d/%Y").date() and strftime.            *)
(***************************************************************************)
IsDigit(c) == c >= 48 /\ c <= 57

\* int() of a string of digits
RECURSIVE DigitsValue(_)
DigitsValue(s) ==
  IF s = <<>> THEN 0
  ELSE 10 * DigitsValue(SubSeq(s, 1, Len(s) - 1)) + (s[Len(s)] - 48)

IsLeap(y) == (y % 4 = 0 /\ y % 100 # 0) \/ y % 400 = 0

DaysInMonth(y, m) ==
  IF m = 2 THEN (IF IsLeap(y) THEN 29 ELSE 28)
  ELSE IF m \in {4, 6, 9, 11} THEN 30 ELSE 31

\* %m: 1[0-2] | 0[1-9] | [1-9]
MatchesMonth(t) ==
  \/ Len(t) = 2 /\ t[1] = 49 /\ t[2] \in 48..50
  \/ Len(t) = 2 /\ t[1] = 48 /\ t[2] \in 49..57
  \/ Len(t) = 1 /\ t[1] \in 49..57

\* %d: 3[01] | [12]\d | 0[1-9] | [1-9] | " "[1-9]
MatchesDay(t) ==
  \/ Len(t) = 2 /\ t[1] = 51 /\ t[2] \in 48..49
  \/ Len(t) = 2 /\ t[1] \in 49..50 /\ IsDigit(t[2])
  \/ Len(t) = 2 /\ t[1] = 48 /\ t[2] \in 49..57
  \/ Len(t) = 1 /\ t[1] \in 49..57
  \/ Len(t) = 2 /\ t[1] = 32 /\ t[2] \in 49..57

\* %Y: \d\d\d\d
MatchesYear(t) == Len(t) = 4 /\ \A i \in 1..4 : IsDigit(t[i])

\* strptime(s, "%m/%d/%Y").date(): the date, or None for the ValueError (the
\* string does not match month/day/year in full, or names no calendar day)
ParseDate(s) ==
  LET slash == <<47>>
      p1 == Find(s, slash)
      rest == SubSeq(s, p1 + 1, Len(s))
      p2 == Find(rest, slash)
      mm == SubSeq(s, 1, p1 - 1)
      dd == SubSeq(rest, 1, p2 - 1)
      yy == SubSeq(rest, p2 + 1, Len(rest))
  IN IF p1 = 0 \/ p2 = 0 THEN None
     ELSE IF ~(MatchesMonth(mm) /\ MatchesDay(dd) /\ MatchesYear(yy)) THEN None
     ELSE LET y == DigitsValue(yy)
              m == DigitsValue(mm)
              d == DigitsValue(LStrip(dd))
          IN IF y >= 1 /\ d <= DaysInMonth(y, m) THEN Some(<<y, m, d>>) ELSE None

\* a <= b on dates
DateLE(a, b) == ~StrLess(b, a)

\* the decimal digits of n, zero-padded to width w
RECURSIVE Digits(_, _)
Digits(n, w) == IF w = 0 THEN <<>> ELSE Digits(n \div 10, w - 1) \o <<48 + (n % 10)>>

\* the month names %B prints (C locale)
MONTH_NAMES ==
  <<
    <<74,97,110,117,97,114,121>>,  \* January
    <<70,101,98,114,117,97,114,121>>,  \* February
    <<77,97,114,99,104>>,  \* March
    <<65,112,114,105,108>>,  \* April
    <<77,97,121>>,  \* May
    <<74,117,110,101>>,  \* June
    <<74,117,108,121>>,  \* July
    <<65,117,103,117,115,116>>,  \* August
    <<83,101,112,116,101,109,98,101,114>>,  \* September
    <<79,99,116,111,98,101,114>>,  \* October
    <<78,111,118,101,109,98,101,114>>,  \* November
    <<68,101,99,101,109,98,101,114>>  \* December
  >>

\* date.strftime("%B %d, %Y"), e.g. "June 05, 2024"
FormatLong(date) ==
  MONTH_NAMES[date[2]] \o <<32>> \o Digits(date[3], 2) \o <<44, 32>> \o Digits(date[1], 4)

(***************************************************************************)
(* urllib.parse.unquote on ASCII escapes: %XX with two hex digits becomes  *)
(* that byte's character; other text is kept.  (A byte over 127 that is no *)
(* UTF-8 sequence decodes to U+FFFD; multi-byte sequences are not          *)
(* modelled, and no input below contains one.)                             *)
(***************************************************************************)
IsHex(c) == IsDigit(c) \/ (c >= 65 /\ c <= 70) \/ (c >= 97 /\ c <= 102)

HexValue(c) == IF IsDigit(c) THEN c - 48 ELSE IF c >= 97 THEN c - 87 ELSE c - 55

RECURSIVE Unquote(_)
Unquote(s) ==
  IF s = <<>> THEN <<>>
  ELSE IF s[1] = 37 /\ Len(s) >= 3 /\ IsHex(s[2]) /\ IsHex(s[3])
    THEN LET b == 16 * HexValue(s[2]) + HexValue(s[3])
         IN <<IF b < 128 THEN b ELSE 65533>> \o Unquote(SubSeq(s, 4, Len(s)))
  ELSE <<s[1]>> \o Unquote(Tail(s))

(***************************************************************************)
(* BeautifulSoup, as far as app.py uses it.                                *)
(***************************************************************************)
TextNode(t) == [name |-> "", text |-> t]

TagNode(n, t) == [name |-> n, text |-> t]

\* cell.get_text(strip=True): every text of the cell, each stripped, the empty
\* ones dropped, joined by ""
RECURSIVE get_text(_)
get_text(cell) ==
  IF cell = <<>> THEN <<>> ELSE Strip(Head(cell).text) \o get_text(Tail(cell))

\* soup.find_all('tr'): the rows of every table, in document order
RECURSIVE find_all_tr(_)
find_all_tr(page) ==
  IF page = <<>> THEN <<>> ELSE Head(page) \o find_all_tr(Tail(page))

\* seq[1:]
DropFirst(seq) == IF seq = <<>> THEN <<>> ELSE Tail(seq)

\* The outcome of requests.get + raise_for_status: the page, or the text
\* str(e) of the exception raised
FetchOk(page) == [ok |-> TRUE, page |-> page, err |-> <<>>]

FetchFailed(text) == [ok |-> FALSE, page |-> <<>>, err |-> text]

(***************************************************************************)
(* County List Provider: get_counties_from_cdfw.                           *)
(***************************************************************************)
CACHE_TTL == 3600

\* the fallback list as returned: sorted([...])
FallbackList == SortedList(FALLBACK_COUNTIES)

\* COUNTIES_CACHE and CACHE_TIME and (now - CACHE_TIME).total_seconds() < 3600
CacheFresh(cache, ctime, now) ==
  Truthy(cache) /\ ctime # None /\ now - ctime[1] < CACHE_TTL

\* the set built by the loop over soup.find_all('tr')[1:]
ParseCounties(page) ==
  LET rows == DropFirst(find_all_tr(page))
      kept == {i \in 1..Len(rows) : Len(rows[i]) >= 3 /\ get_text(rows[i][3]) # <<>>}
  IN {Title(get_text(rows[i][3])) : i \in kept}

\* A call made while serving a request: the function, its arguments, what
\* the network did for each fetch it made (none: <<>>) and what it returned
Call(fn, args, net, ret) == [fn |-> fn, args |-> args, net |-> net, ret |-> ret]

\* get_counties_from_cdfw with the fallback list stored as if it were fetched
get_counties_storing_fallback(cache, ctime, now, outcome) ==
  IF CacheFresh(cache, ctime, now)
    THEN [cache |-> cache, time |-> ctime,
          call |-> Call("get_counties_from_cdfw", <<>>, <<>>, cache[1])]
  ELSE LET counties == IF outcome.ok THEN SortedSet(ParseCounties(outcome.page))
                       ELSE FallbackList
       IN [cache |-> Some(counties), time |-> Some(now),
           call |-> Call("get_counties_from_cdfw", <<>>, <<outcome>>, counties)]

\* One call, given the globals, datetime.now() and what the fetch does if it
\* is made: the globals afterwards and the call's record.
get_counties_from_cdfw(cache, ctime, now, outcome) ==
  IF CacheFresh(cache, ctime, now)
    THEN [cache |-> cache, time |-> ctime,
          call |-> Call("get_counties_from_cdfw", <<>>, <<>>, cache[1])]
  ELSE IF outcome.ok
    THEN The({[cache |-> Some(counties), time |-> Some(now),
               call |-> Call("get_counties_from_cdfw", <<>>, <<outcome>>, counties)]
              : counties \in {SortedSet(ParseCounties(outcome.page))}})
  ELSE [cache |-> cache, time |-> ctime,
        call |-> Call("get_counties_from_cdfw", <<>>, <<outcome>>, FallbackList)]

(***************************************************************************)
(* Fish-Plant Scraper: get_fish_plants_for_county.                         *)
(***************************************************************************)
TABLE_NOT_FOUND == <<70,105,115,104,32,112,108,97,110,116,105,110,103,32,116,97,98,108,101,32,110,111,116,32,102,111,117,110,100,46>>  \* "Fish planting table not found."

\* the loop over water_td.contents: the stripped text nodes up to the first
\* <a>; other tags are passed over
RECURSIVE WaterLoop(_)
WaterLoop(contents) ==
  IF contents = <<>> THEN <<>>
  ELSE IF Head(contents).name = "" THEN Strip(Head(contents).text) \o WaterLoop(Tail(contents))
  ELSE IF Head(contents).name = "a" THEN <<>>
  ELSE WaterLoop(Tail(contents))

\* the water name taken with get_text, link text included
WaterNameWithLinks(cell) == get_text(cell)

WaterName(cell) == Strip(WaterLoop(cell))

\* county_input.lower() in county_text.lower()
CountyMatches(county_input, county_text) ==
  Contains(Lower(county_text), Lower(county_input))

\* week_text.split(" - ")[0] if " - " in week_text else week_text.split("-")[0]
StartStr(week_text) ==
  IF Contains(week_text, <<32,45,32>>) THEN SplitFirst(week_text, <<32,45,32>>)  \* " - ", " - "
  ELSE SplitFirst(week_text, <<45>>)  \* "-"

\* One pass of the row loop: the plant appended, or None when the row is
\* skipped by a continue
RowPlant(row, county_input) ==
  IF Len(row) < 4 THEN None
  ELSE IF WaterName(row[2]) = <<>> THEN None
  ELSE IF ~CountyMatches(county_input, get_text(row[3])) THEN None
  ELSE LET week_text == get_text(row[1])
           plant(start_date) ==
             IF start_date = None THEN None
             ELSE Some([water |-> WaterName(row[2]), date |-> start_date[1],
                        week |-> week_text, species |-> get_text(row[4])])
       IN The({plant(d) : d \in {ParseDate(Strip(StartStr(week_text)))}})

\* plants after the loop
Plants(rows, county_input) ==
  LET kept == SelectSeq([i \in 1..Len(rows) |-> RowPlant(rows[i], county_input)],
                        LAMBDA p : p # None)
  IN [i \in 1..Len(kept) |-> kept[i][1]]

\* grouped[water] left in page order
EntriesUnsorted(plants, water) == SelectSeq(plants, LAMBDA p : p.water = water)

\* grouped[water], sorted by date: entries.sort(key=lambda x: x['date'])
Entries(plants, water) ==
  LET mine == SelectSeq(plants, LAMBDA p : p.water = water)
      s == SortPairs([i \in 1..Len(mine) |-> <<mine[i].date, mine[i]>>])
  IN [i \in 1..Len(s) |-> s[i][2]]

\* next((e for e in reversed(entries) if e['date'] <= today), None)
Recent(entries, day) ==
  LET past == {i \in 1..Len(entries) : DateLE(entries[i].date, day)}
  IN IF past = {} THEN None
     ELSE Some(entries[CHOOSE i \in past : \A j \in past : j <= i])

\* next((e for e in entries if e['date'] > today), None)
Upcoming(entries, day) ==
  LET future == {i \in 1..Len(entries) : StrLess(day, entries[i].date)}
  IN IF future = {} THEN None
     ELSE Some(entries[CHOOSE i \in future : \A j \in future : i <= j])

\* dict(sorted(results.items())): <<water, {'recent', 'upcoming'}>> by water
SortedResults(plants, day) ==
  LET waters == {plants[i].water : i \in 1..Len(plants)}
      result(entries) == [recent |-> Recent(entries, day), upcoming |-> Upcoming(entries, day)]
  IN The({[k \in 1..Len(keys) |->
             <<keys[k], The({result(e) : e \in {Entries(plants, keys[k])}})>>]
          : keys \in {SortedSet(waters)}})

\* One call, given what the fetch does and date.today(): the pair
\* (results, error) returned
get_fish_plants_for_county(county_input, outcome, day) ==
  IF ~outcome.ok THEN [results |-> None, error |-> Some(outcome.err)]
  ELSE IF outcome.page = <<>> THEN [results |-> None, error |-> Some(TABLE_NOT_FOUND)]
  ELSE The({[results |-> Some(SortedResults(plants, day)), error |-> None]
            : plants \in {Plants(DropFirst(Head(outcome.page)), county_input)}})

(***************************************************************************)
(* Geocoder and County Seat Fallback.                                      *)
(***************************************************************************)
\* What the geocoding service does with a query: a first result with its
\* coordinate, an empty array, or any exception inside the try block
GeoFound(coords) == [kind |-> "found", coords |-> coords]

GeoEmpty == [kind |-> "empty", coords |-> <<>>]

GeoError == [kind |-> "error", coords |-> <<>>]

\* f"{water.lower()}|{county.lower()}"
GeocodeKey(water, county) == Lower(water) \o <<124>> \o Lower(county)  \* "|"

\* GEOCODE_CACHE[key] = value
CachePut(cache, key, value) ==
  [k \in DOMAIN cache \cup {key} |-> IF k = key THEN value ELSE cache[k]]

\* geocode_water that caches only the coordinates found, not a failure
geocode_water_retrying(cache, water, county, outcome) ==
  LET key == GeocodeKey(water, county)
  IN IF key \in DOMAIN cache
       THEN [cache |-> cache,
             call |-> Call("geocode_water", <<water, county>>, <<>>, cache[key])]
     ELSE IF outcome.kind = "found"
       THEN [cache |-> CachePut(cache, key, Some(outcome.coords)),
             call |-> Call("geocode_water", <<water, county>>, <<outcome>>,
                           Some(outcome.coords))]
     ELSE [cache |-> cache,
           call |-> Call("geocode_water", <<water, county>>, <<outcome>>, None)]

\* One call, given the cache and what the service does if it is queried: the
\* cache afterwards and the call's record.
geocode_water(cache, water, county, outcome) ==
  LET key == GeocodeKey(water, county)
  IN IF key \in DOMAIN cache
       THEN [cache |-> cache,
             call |-> Call("geocode_water", <<water, county>>, <<>>, cache[key])]
     ELSE IF outcome.kind = "found"
       THEN [cache |-> CachePut(cache, key, Some(outcome.coords)),
             call |-> Call("geocode_water", <<water, county>>, <<outcome>>,
                           Some(outcome.coords))]
     ELSE [cache |-> CachePut(cache, key, None),
           call |-> Call("geocode_water", <<water, county>>, <<outcome>>, None)]

\* COUNTY_SEATS.get(name)
CountySeatsGet(name) ==
  LET hits == {i \in 1..Len(COUNTY_SEATS) : COUNTY_SEATS[i][1] = name}
  IN IF hits = {} THEN None
     ELSE LET i == CHOOSE i \in hits : TRUE
          IN Some(<<COUNTY_SEATS[i][2], COUNTY_SEATS[i][3]>>)

\* county_name.replace(" County", "").strip().title(), then the lookup
get_county_seat_coords(county_name) ==
  CountySeatsGet(Title(Strip(ReplaceAll(county_name, <<32,67,111,117,110,116,121>>))))  \* " County"

(***************************************************************************)
(* View Layer.                                                             *)
(***************************************************************************)
\* (36.7783, -119.4179), the center of California
CENTER == <<367783, -1194179>>

PLEASE_SELECT == <<80,108,101,97,115,101,32,115,101,108,101,99,116,32,97,32,99,111,117,110,116,121,46>>  \* "Please select a county."

\* f"Exact location for '{water}' not found — showing {county} County seat."
SeatMessage(water, county) ==
  <<69,120,97,99,116,32,108,111,99,97,116,105,111,110,32,102,111,114,32,39>> \o water  \* "Exact location for '"
    \o <<39,32,110,111,116,32,102,111,117,110,100,32,8212,32,115,104,111,119,105,110,103,32>> \o county  \* "' not found — showing "
    \o <<32,67,111,117,110,116,121,32,115,101,97,116,46>>  \* " County seat."

CENTER_MESSAGE ==
  <<76,111,99,97,116,105,111,110,32,97,110,100,32,99,111,117,110,116,121,32,115,101,97,116,32,110,111,116,32,102,111,117,110,100,32,8212,32,115,104,111,119,105,110,103,32,99,101,110,116,101,114,32,111,102,32,67,97,108,105,102,111,114,110,105,97,46>>  \* "Location and county seat not found — showing center of California."

\* map_view without line 185: the county-seat message is kept on the pin at
\* the center of California
ResolveKeepingMessage(coords, county, water) ==
  LET step2(c) == IF ~Truthy(c)
                    THEN [coords |-> get_county_seat_coords(county),
                          message |-> Some(SeatMessage(water, county))]
                    ELSE [coords |-> c, message |-> None]
      step3(s) == IF ~Truthy(s.coords)
                    THEN [coords |-> CENTER, message |-> s.message]
                    ELSE [coords |-> s.coords[1], message |-> s.message]
  IN The({step3(s) : s \in {step2(c) : c \in {coords}}})

\* Steps 2 and 3 of map_view: from the geocoder's answer to the pin and message
Resolve(coords, county, water) ==
  LET step2(c) == IF ~Truthy(c)
                    THEN [coords |-> get_county_seat_coords(county),
                          message |-> Some(SeatMessage(water, county))]
                    ELSE [coords |-> c, message |-> None]
      step3(s) == IF ~Truthy(s.coords)
                    THEN [coords |-> CENTER, message |-> Some(CENTER_MESSAGE)]
                    ELSE [coords |-> s.coords[1], message |-> s.message]
  IN The({step3(s) : s \in {step2(c) : c \in {coords}}})

(***************************************************************************)
(* State.  The three globals of app.py, the environment the code reads     *)
(* (the clock, the calendar day, the source page) and, for the request served last, the     *)
(* request, the calls it made and the response it rendered.                *)
(***************************************************************************)
VARIABLES
  COUNTIES_CACHE,  \* None or the stored list
  CACHE_TIME,      \* None or the datetime.now() stored with it, in seconds
  GEOCODE_CACHE,   \* key -> None or (lat, lon)
  clock,           \* datetime.now(), in seconds
  today,           \* datetime.date.today()
  site,            \* the source page as published now
  req,             \* the last request: [view, county, water]
  trace,           \* the calls the last request made, in order
  resp,            \* the render_template call that answered it
  geoLog,          \* history: every geocode_water call record so far
  pc,              \* concurrent geocoding: where each thread is
  local            \* concurrent geocoding: each thread's locals

vars ==
  <<COUNTIES_CACHE, CACHE_TIME, GEOCODE_CACHE, clock, today, site, req, trace, resp,
    geoLog, pc, local>>

(***************************************************************************)
(* Inputs.                                                                 *)
(***************************************************************************)
LAKE_TAHOE == <<76,97,107,101,32,84,97,104,111,101>>  \* "Lake Tahoe"

EL_DORADO == <<69,108,32,68,111,114,97,100,111>>  \* "El Dorado"

\* cells and rows of the source table
Td(text) == <<TextNode(text)>>

Row(week, water_td, county, species) == <<Td(week), water_td, Td(county), Td(species)>>

\* <td><a>Lake Tahoe</a></td>
TD_LINK_ONLY == <<TagNode("a", LAKE_TAHOE)>>

\* <td>Lake Tahoe <a>map</a></td>
TD_TEXT_LINK == <<TextNode(<<76,97,107,101,32,84,97,104,111,101,32>>), TagNode("a", <<109,97,112>>)>>  \* "Lake Tahoe ", "map"

\* <td><b>Big</b> Bear Lake</td>
TD_BOLD_TEXT == <<TagNode("b", <<66,105,103>>), TextNode(<<32,66,101,97,114,32,76,97,107,101>>)>>  \* "Big", " Bear Lake"

HEADER == <<>>

\* ("06/01/2025 - 06/07/2025", <a>Lake Tahoe</a>, "El Dorado", "Rainbow Trout")
ROW_TAHOE_LINK ==
  Row(<<48,54,47,48,49,47,50,48,50,53,32,45,32,48,54,47,48,55,47,50,48,50,53>>, TD_LINK_ONLY, EL_DORADO, <<82,97,105,110,98,111,119,32,84,114,111,117,116>>)  \* "06/01/2025 - 06/07/2025", "Rainbow Trout"

ROW_TAHOE_TEXT ==
  Row(<<48,54,47,48,49,47,50,48,50,53,32,45,32,48,54,47,48,55,47,50,48,50,53>>, TD_TEXT_LINK, EL_DORADO, <<82,97,105,110,98,111,119,32,84,114,111,117,116>>)  \* "06/01/2025 - 06/07/2025", "Rainbow Trout"

\* the pages of the main specification: no table, a table with no data row,
\* the row above, and two counties
PAGE_NO_TABLE == <<>>

PAGE_EMPTY == << <<HEADER>> >>

PAGE_TAHOE == << <<HEADER, ROW_TAHOE_LINK>> >>

PAGE_TWO ==
  << <<HEADER, ROW_TAHOE_TEXT,
       Row(<<54,47,49,53,47,50,48,50,53,45,54,47,50,49,47,50,48,50,53>>, TD_BOLD_TEXT, <<115,97,110,32,98,101,114,110,97,114,100,105,110,111>>, <<66,114,111,119,110,32,84,114,111,117,116>>)>> >>  \* "6/15/2025-6/21/2025", "san bernardino", "Brown Trout"

Pages == {PAGE_NO_TABLE, PAGE_EMPTY, PAGE_TAHOE, PAGE_TWO}

\* str(e) of the exception a fetch raises; an exception built without
\* arguments prints as ""
ErrTexts == { <<82,101,97,100,32,116,105,109,101,100,32,111,117,116,46>>, <<>> }  \* "Read timed out."

\* what a fetch of the source page can do now: return it, or raise
FetchOutcomes(page) == {FetchOk(page)} \cup {FetchFailed(e) : e \in ErrTexts}

\* the county query parameter: missing, empty or given
CountyArgs == {None, Some(<<>>), Some(EL_DORADO), Some(<<65,116,108,97,110,116,105,115>>)}  \* "Atlantis"

\* the geocoding service's answers; the coordinates are Lake Tahoe's and
\* (0.0, 0.0)
GeoOutcomes == {GeoError, GeoEmpty, GeoFound(<<390968, -1200324>>), GeoFound(<<0, 0>>)}

\* /map/<county>/<water> requests: <<county, water>> as routed.  The second
\* shares its key with the first up to case; the third needs the " County"
\* suffix removed; the last two are different pairs, neither a known county.
MapArgs ==
  { <<EL_DORADO, LAKE_TAHOE>>,
    <<<<69,76,32,68,79,82,65,68,79>>, <<108,97,107,101,32,116,97,104,111,101>>>>,  \* "EL DORADO", "lake tahoe"
    <<<<101,108,32,100,111,114,97,100,111,32,67,111,117,110,116,121>>, LAKE_TAHOE>>,  \* "el dorado County"
    <<<<99>>, <<97,37,55,67,98>>>>,  \* "c", "a%7Cb"
    <<<<98,124,99>>, <<97>>>> }  \* "b|c", "a"

MaxClock == 7200

TickStep == 1800

(***************************************************************************)
(* The views.  Each is given the globals and what the network does for the *)
(* fetches it may make, and yields the globals afterwards, the calls made  *)
(* and the template rendered with its arguments.                           *)
(***************************************************************************)
NoRequest == [view |-> "", county |-> None, water |-> None]

\* a render_template call; an argument not passed is None
Render(template) ==
  [template |-> template, counties |-> None, error |-> None, county |-> None,
   results |-> None, today |-> None, lat |-> None, lon |-> None,
   water |-> None, message |-> None]

\* index()
index(cache, ctime, now, countiesOut) ==
  LET view(c) == [cache |-> c.cache, time |-> c.time, trace |-> <<c.call>>,
                  resp |-> [Render("index.html") EXCEPT !.counties = Some(c.call.ret)]]
  IN The({view(c) : c \in {get_counties_from_cdfw(cache, ctime, now, countiesOut)}})

\* results() that also passes the county list to results.html
results_with_counties(county, cache, ctime, now, day, scrapeOut, countiesOut) ==
  LET view(c, r) ==
        LET scrape == Call("get_fish_plants_for_county", <<county[1]>>, <<scrapeOut>>, r)
        IN IF Truthy(r.error)
             THEN [cache |-> c.cache, time |-> c.time, trace |-> <<scrape, c.call>>,
                   resp |-> [Render("index.html") EXCEPT !.counties = Some(c.call.ret),
                                                         !.error = r.error]]
             ELSE [cache |-> c.cache, time |-> c.time, trace |-> <<scrape, c.call>>,
                   resp |-> [Render("results.html") EXCEPT
                               !.counties = Some(c.call.ret),
                               !.county = county,
                               !.results = Some(IF Truthy(r.results) THEN r.results[1] ELSE <<>>),
                               !.today = Some(FormatLong(day))]]
      home(c) == [cache |-> c.cache, time |-> c.time, trace |-> <<c.call>>,
                  resp |-> [Render("index.html") EXCEPT !.counties = Some(c.call.ret),
                                                        !.error = Some(PLEASE_SELECT)]]
  IN The({IF ~Truthy(county) THEN home(c)
          ELSE The({view(c, r) : r \in {get_fish_plants_for_county(county[1], scrapeOut, day)}})
          : c \in {get_counties_from_cdfw(cache, ctime, now, countiesOut)}})

\* results(); county is request.args.get('county')
results(county, cache, ctime, now, day, scrapeOut, countiesOut) ==
  LET \* render_template('index.html', counties=get_counties_from_cdfw(), error=error)
      home(error, calls) ==
        LET view(c) == [cache |-> c.cache, time |-> c.time, trace |-> calls \o <<c.call>>,
                        resp |-> [Render("index.html") EXCEPT !.counties = Some(c.call.ret),
                                                              !.error = Some(error)]]
        IN The({view(c) : c \in {get_counties_from_cdfw(cache, ctime, now, countiesOut)}})
      scraped(r) ==
        LET scrape == Call("get_fish_plants_for_county", <<county[1]>>, <<scrapeOut>>, r)
        IN IF Truthy(r.error) THEN home(r.error[1], <<scrape>>)
           ELSE [cache |-> cache, time |-> ctime, trace |-> <<scrape>>,
                 resp |-> [Render("results.html") EXCEPT
                             !.county = county,
                             !.results = Some(IF Truthy(r.results) THEN r.results[1] ELSE <<>>),
                             !.today = Some(FormatLong(day))]]
  IN IF ~Truthy(county) THEN home(PLEASE_SELECT, <<>>)
     ELSE The({scraped(r) : r \in {get_fish_plants_for_county(county[1], scrapeOut, day)}})

\* map_view(county, water)
map_view(county, water, gcache, geoOut) ==
  LET page(name, g, pin) ==
        [cache |-> g.cache, trace |-> <<g.call>>,
         resp |-> [Render("map.html") EXCEPT !.lat = Some(pin.coords[1]),
                                             !.lon = Some(pin.coords[2]),
                                             !.water = Some(name),
                                             !.county = Some(county),
                                             !.message = pin.message]]
  IN The({The({The({page(name, g, pin) : pin \in {Resolve(g.call.ret, county, name)}})
               : g \in {geocode_water(gcache, name, county, geoOut)}})
          : name \in {Unquote(water)}})

(***************************************************************************)
(* Actions: one request served from start to finish, or time passing.      *)
(***************************************************************************)
NoThreads == UNCHANGED <<pc, local>>

Tick ==
  /\ clock + TickStep <= MaxClock
  /\ clock' = clock + TickStep
  /\ UNCHANGED <<COUNTIES_CACHE, CACHE_TIME, GEOCODE_CACHE, today, site, req, trace, resp, geoLog>>
  /\ NoThreads

\* the source page is republished
Publish ==
  /\ \E p \in Pages \ {site} : site' = p
  /\ UNCHANGED <<COUNTIES_CACHE, CACHE_TIME, GEOCODE_CACHE, clock, today, req, trace, resp, geoLog>>
  /\ NoThreads

IndexRequest ==
  \E out \in FetchOutcomes(site) :
    \E v \in {index(COUNTIES_CACHE, CACHE_TIME, clock, out)} :
       /\ COUNTIES_CACHE' = v.cache
       /\ CACHE_TIME' = v.time
       /\ req' = [NoRequest EXCEPT !.view = "index"]
       /\ trace' = v.trace
       /\ resp' = v.resp
       /\ UNCHANGED <<GEOCODE_CACHE, clock, today, site, geoLog>>
       /\ NoThreads

ResultsRequestOn(counties) ==
  \E county \in counties, scrapeOut \in FetchOutcomes(site), countiesOut \in FetchOutcomes(site) :
    \E v \in {results(county, COUNTIES_CACHE, CACHE_TIME, clock, today, scrapeOut, countiesOut)} :
       /\ COUNTIES_CACHE' = v.cache
       /\ CACHE_TIME' = v.time
       /\ req' = [NoRequest EXCEPT !.view = "results", !.county = county]
       /\ trace' = v.trace
       /\ resp' = v.resp
       /\ UNCHANGED <<GEOCODE_CACHE, clock, today, site, geoLog>>
       /\ NoThreads

\* the history of geocode_water calls: each pair's first call
LogCall(log, call) ==
  IF call.args \in DOMAIN log THEN log
  ELSE [a \in DOMAIN log \cup {call.args} |-> IF a = call.args THEN call ELSE log[a]]

MapRequestOn(args, outcomes) ==
  \E a \in args, geoOut \in outcomes :
    \E v \in {map_view(a[1], a[2], GEOCODE_CACHE, geoOut)} :
       /\ GEOCODE_CACHE' = v.cache
       /\ req' = [NoRequest EXCEPT !.view = "map", !.county = Some(a[1]), !.water = Some(a[2])]
       /\ trace' = v.trace
       /\ resp' = v.resp
       /\ geoLog' = LogCall(geoLog, v.trace[1])
       /\ UNCHANGED <<COUNTIES_CACHE, CACHE_TIME, clock, today, site>>
       /\ NoThreads

ResultsRequest == ResultsRequestOn(CountyArgs)

MapRequest == MapRequestOn({<<EL_DORADO, LAKE_TAHOE>>}, {GeoError, GeoFound(<<390968, -1200324>>)})

Threads == {1, 2}

EmptyCache == [k \in {} |-> None]

Init ==
  /\ COUNTIES_CACHE = None
  /\ CACHE_TIME = None
  /\ GEOCODE_CACHE = EmptyCache
  /\ clock = 0
  /\ today = <<2025, 6, 5>>
  /\ site = PAGE_NO_TABLE
  /\ req = NoRequest
  /\ trace = <<>>
  /\ resp = Render("")
  /\ geoLog = EmptyCache
  /\ pc = [t \in Threads |-> "idle"]
  /\ local = [t \in Threads |-> None]

Next == Tick \/ Publish \/ IndexRequest \/ ResultsRequest \/ MapRequest

Spec == Init /\ [][Next]_vars

\* The geocoder and the map view alone, over every request of MapArgs
GeoMapRequest == MapRequestOn(MapArgs, GeoOutcomes)

NextGeo == GeoMapRequest

SpecGeo == Init /\ [][NextGeo]_vars

(***************************************************************************)
(* The scraper alone: the page and the day are drawn at the start, and     *)
(* results requests (whose fetch succeeds) are served from it.             *)
(***************************************************************************)
MaxRows == 2

\* first cells: a range, a range without spaces, a single date, no date
Weeks ==
  { <<48,54,47,48,49,47,50,48,50,53,32,45,32,48,54,47,48,55,47,50,48,50,53>>, <<54,47,49,53,47,50,48,50,53,45,54,47,50,49,47,50,48,50,53>>, <<48,53,47,50,53,47,50,48,50,53>>, <<84,66,68>> }  \* "06/01/2025 - 06/07/2025", "6/15/2025-6/21/2025", "05/25/2025", "TBD"

ScrapeRows ==
  {Row(w, td, EL_DORADO, <<82,97,105,110,98,111,119,32,84,114,111,117,116>>) : w \in Weeks, td \in {TD_TEXT_LINK, TD_BOLD_TEXT}}  \* "Rainbow Trout"
    \cup {ROW_TAHOE_LINK,
          Row(<<48,53,47,50,53,47,50,48,50,53>>, TD_TEXT_LINK, <<78,111,114,116,104,32,69,108,100,111,114,97,100,111>>, <<66,114,111,119,110,32,84,114,111,117,116>>)}  \* "05/25/2025", "North Eldorado", "Brown Trout"

RECURSIVE RowLists(_)
RowLists(n) ==
  IF n = 0 THEN {<<>>}
  ELSE RowLists(n - 1) \cup {Append(rows, r) : rows \in RowLists(n - 1), r \in ScrapeRows}

ScrapePages == {<< <<HEADER>> \o rows >> : rows \in RowLists(MaxRows)}

Days == {<<2025, 5, 1>>, <<2025, 6, 1>>, <<2025, 6, 5>>, <<2025, 6, 30>>}

ScrapeArgs == {Some(EL_DORADO), Some(<<100,111,114,97,100,111>>)}  \* "dorado"

InitScrape ==
  /\ COUNTIES_CACHE = None
  /\ CACHE_TIME = None
  /\ GEOCODE_CACHE = EmptyCache
  /\ clock = 0
  /\ today \in Days
  /\ site \in ScrapePages
  /\ req = NoRequest
  /\ trace = <<>>
  /\ resp = Render("")
  /\ geoLog = EmptyCache
  /\ pc = [t \in Threads |-> "idle"]
  /\ local = [t \in Threads |-> None]

ScrapeRequest ==
  \E county \in ScrapeArgs :
    \E v \in {results(county, COUNTIES_CACHE, CACHE_TIME, clock, today, FetchOk(site),
                      FetchOk(site))} :
       /\ COUNTIES_CACHE' = v.cache
       /\ CACHE_TIME' = v.time
       /\ req' = [NoRequest EXCEPT !.view = "results", !.county = county]
       /\ trace' = v.trace
       /\ resp' = v.resp
       /\ UNCHANGED <<GEOCODE_CACHE, clock, today, site, geoLog>>
       /\ NoThreads

NextScrape == ScrapeRequest

SpecScrape == InitScrape /\ [][NextScrape]_vars

(***************************************************************************)
(* Concurrent geocoding: the threads of the server each run geocode_water, *)
(* one statement at a time, with no lock on GEOCODE_CACHE.                 *)
(***************************************************************************)
ConcArgs == { <<LAKE_TAHOE, EL_DORADO>>, <<<<108,97,107,101,32,116,97,104,111,101>>, <<69,76,32,68,79,82,65,68,79>>>> }  \* "lake tahoe", "EL DORADO"

ConcOutcomes == {GeoError, GeoFound(<<390968, -1200324>>)}

Sequential == UNCHANGED <<COUNTIES_CACHE, CACHE_TIME, clock, today, site, req, trace, resp, geoLog>>

\* line 121: the call starts and computes its key
Begin(t) ==
  /\ pc[t] = "idle"
  /\ \E a \in ConcArgs :
       local' = [local EXCEPT ![t] = Some([water |-> a[1], county |-> a[2],
                                           key |-> GeocodeKey(a[1], a[2]),
                                           value |-> None, queried |-> FALSE])]
  /\ pc' = [pc EXCEPT ![t] = "check"]
  /\ UNCHANGED GEOCODE_CACHE
  /\ Sequential

\* lines 122-123: if key in GEOCODE_CACHE: return GEOCODE_CACHE[key]
Check(t) ==
  /\ pc[t] = "check"
  /\ IF local[t][1].key \in DOMAIN GEOCODE_CACHE
       THEN /\ local' = [local EXCEPT ![t][1].value = GEOCODE_CACHE[local[t][1].key]]
            /\ pc' = [pc EXCEPT ![t] = "return"]
       ELSE /\ pc' = [pc EXCEPT ![t] = "query"]
            /\ UNCHANGED local
  /\ UNCHANGED GEOCODE_CACHE
  /\ Sequential

\* lines 135-141, 144-146: the query and its answer
Query(t) ==
  /\ pc[t] = "query"
  /\ \E out \in ConcOutcomes :
       local' = [local EXCEPT ![t][1].queried = TRUE,
                              ![t][1].value = IF out.kind = "found" THEN Some(out.coords) ELSE None]
  /\ pc' = [pc EXCEPT ![t] = "store"]
  /\ UNCHANGED GEOCODE_CACHE
  /\ Sequential

\* line 142 or 147: GEOCODE_CACHE[key] = the answer
Store(t) ==
  /\ pc[t] = "store"
  /\ GEOCODE_CACHE' = CachePut(GEOCODE_CACHE, local[t][1].key, local[t][1].value)
  /\ pc' = [pc EXCEPT ![t] = "return"]
  /\ UNCHANGED local
  /\ Sequential

\* the call returns its value
Return(t) ==
  /\ pc[t] = "return"
  /\ pc' = [pc EXCEPT ![t] = "idle"]
  /\ local' = [local EXCEPT ![t] = None]
  /\ UNCHANGED GEOCODE_CACHE
  /\ Sequential

NextConc == \E t \in Threads : Begin(t) \/ Check(t) \/ Query(t) \/ Store(t) \/ Return(t)

SpecConc == Init /\ [][NextConc]_vars

(***************************************************************************)
(* Properties.                                                             *)
(***************************************************************************)
\* the network fetches a sequence of calls made
RECURSIVE NetCount(_)
NetCount(calls) ==
  IF calls = <<>> THEN 0 ELSE Len(Head(calls).net) + NetCount(Tail(calls))

\* the elements of a sequence
Range(seq) == {seq[i] : i \in 1..Len(seq)}

\* the calls of the last request to one function
CallsTo(calls, fn) == {i \in 1..Len(calls) : calls[i].fn = fn}

\* a step that serves a request (the others move the clock or the site)
RequestStep == clock' = clock /\ site' = site

\* C1: once geocode_water has been called for a (water, county) pair, every
\* later call for that pair issues no external query and returns what the
\* first call returned, also when that was None.
C1_LaterCallsAreServedFromCache ==
  [][\A i \in CallsTo(trace', "geocode_water") :
       trace'[i].args \in DOMAIN geoLog
         => /\ trace'[i].net = <<>>
            /\ trace'[i].ret = geoLog[trace'[i].args].ret]_vars

\* a repeated call answered None from the cache, after the pair's first call
\* got an empty array from the service
C1_Witness ==
  /\ CallsTo(trace, "geocode_water") = {1}
  /\ trace[1].args \in DOMAIN geoLog
  /\ trace[1].net = <<>>
  /\ trace[1].ret = None
  /\ geoLog[trace[1].args].net = <<GeoEmpty>>

\* the pin and the message of the map page rendered last
Pin == <<resp.lat[1], resp.lon[1]>>

\* C2: the map view shows the geocoder's coordinate with no message; if the
\* geocoder returned None, the county seat of the county with the substitution
\* message; if there is none either, (36.7783, -119.4179) with the total
\* fallback message.  The message is absent exactly when the geocoder
\* succeeded, and geocode failure for "El Dorado" shows (38.7296, -120.7985).
C2_ResolutionOrder ==
  req.view = "map" =>
    LET g == trace[1]
        county == req.county[1]
        seat == get_county_seat_coords(county)
    IN /\ g.fn = "geocode_water"
       /\ g.ret # None => Pin = g.ret[1] /\ resp.message = None
       /\ g.ret = None /\ seat # None =>
            Pin = seat[1] /\ resp.message = Some(SeatMessage(g.args[1], county))
       /\ g.ret = None /\ seat = None =>
            Pin = <<367783, -1194179>> /\ resp.message = Some(CENTER_MESSAGE)
       /\ resp.message = None <=> g.ret # None
       /\ g.ret = None /\ county = EL_DORADO => Pin = <<387296, -1207985>>

\* the geocoder failed for "El Dorado" and the pin is Placerville
C2_Witness ==
  /\ req.view = "map"
  /\ req.county = Some(EL_DORADO)
  /\ trace[1].ret = None
  /\ Pin = <<387296, -1207985>>
  /\ resp.message = Some(SeatMessage(LAKE_TAHOE, EL_DORADO))

\* the events the page holds for a county query, by water body
EventsOf(water) ==
  {p \in Range(Plants(DropFirst(Head(site)), req.county[1])) : p.water = water}

\* C3: for every water body of the mapping, recent is one of its events dated
\* on or before today with the latest such date, absent exactly when there is
\* none, and upcoming one of its events dated after today with the earliest
\* such date, absent exactly when there is none.
C3_RecentAndUpcoming ==
  resp.template = "results.html" =>
    \A k \in 1..Len(resp.results[1]) :
      LET water == resp.results[1][k][1]
          r == resp.results[1][k][2]
          past == {e \in EventsOf(water) : DateLE(e.date, today)}
          future == {e \in EventsOf(water) : ~DateLE(e.date, today)}
      IN /\ r.recent = None <=> past = {}
         /\ r.recent # None =>
              r.recent[1] \in past /\ \A e \in past : DateLE(e.date, r.recent[1].date)
         /\ r.upcoming = None <=> future = {}
         /\ r.upcoming # None =>
              r.upcoming[1] \in future /\ \A e \in future : DateLE(r.upcoming[1].date, e.date)

\* a water body with two events on or before today, of different dates
C3_Witness ==
  /\ resp.template = "results.html"
  /\ \E k \in 1..Len(resp.results[1]) :
       LET water == resp.results[1][k][1]
           r == resp.results[1][k][2]
       IN /\ r.recent # None
          /\ \E e \in EventsOf(water) : e.date # r.recent[1].date /\ DateLE(e.date, today)

\* C4, as claimed: once a list is stored, a call made less than 3600 seconds
\* later fetches nothing and returns the stored list, whatever the list holds.
C4_StoredListIsServedForAnHour ==
  [][(RequestStep /\ COUNTIES_CACHE # None /\ CACHE_TIME # None
        /\ clock - CACHE_TIME[1] < 3600)
       => \A i \in CallsTo(trace', "get_counties_from_cdfw") :
            trace'[i].net = <<>> /\ trace'[i].ret = COUNTIES_CACHE[1]]_vars

\* the fallback list: the 58 names, ascending
IsFallbackList(list) ==
  /\ Len(list) = 58
  /\ Range(list) = Range(FALLBACK_COUNTIES)
  /\ \A i \in 1..57 : StrLess(list[i], list[i + 1])

\* C5: a get_counties call whose fetch fails returns the sorted fallback list
\* of 58 names and leaves COUNTIES_CACHE and CACHE_TIME as they were.
C5_FailureLeavesTheCacheAlone ==
  [][RequestStep =>
       \A i \in CallsTo(trace', "get_counties_from_cdfw") :
         (trace'[i].net # <<>> /\ ~trace'[i].net[1].ok)
           => /\ IsFallbackList(trace'[i].ret)
              /\ COUNTIES_CACHE' = COUNTIES_CACHE
              /\ CACHE_TIME' = CACHE_TIME]_vars

\* a failed refresh of a stale list: the fallback list was returned and the
\* stale list is still stored
C5_Witness ==
  /\ \E i \in CallsTo(trace, "get_counties_from_cdfw") :
       /\ trace[i].net # <<>> /\ ~trace[i].net[1].ok
       /\ trace[i].ret = FallbackList
  /\ Truthy(COUNTIES_CACHE)
  /\ clock - CACHE_TIME[1] >= 3600

\* C6, as claimed: whenever the scraper returns (None, error text), the
\* results view renders the home page with that text, never the results table.
C6_ScraperErrorRedisplaysHome ==
  \A i \in CallsTo(trace, "get_fish_plants_for_county") :
    trace[i].ret.results = None
      => resp.template = "index.html" /\ resp.error = trace[i].ret.error

\* C7, as claimed: a request makes at most one network fetch.
C7_AtMostOneFetch == NetCount(trace) <= 1

\* C7, amended: the home and map views make at most one fetch; the results
\* view makes at most two, and two only when the scraper returned an error
\* and get_counties then fetched the page again for the home page.
C7_AtMostTwoFetches ==
  /\ req.view \in {"index", "map"} => NetCount(trace) <= 1
  /\ req.view = "results" =>
       /\ NetCount(trace) <= 2
       /\ NetCount(trace) = 2 =>
            /\ trace[1].fn = "get_fish_plants_for_county"
            /\ Truthy(trace[1].ret.error)
            /\ trace[2].fn = "get_counties_from_cdfw"
            /\ resp.template = "index.html"

\* a results request that fetched twice
C7_Witness == req.view = "results" /\ NetCount(trace) = 2

\* the mapping returned by the scraper call of the last request
Scraped == trace[1].ret

HasEventOn(mapping, water, date) ==
  \E k \in 1..Len(mapping) :
    /\ mapping[k][1] = water
    /\ \/ mapping[k][2].recent # None /\ mapping[k][2].recent[1].date = date
       \/ mapping[k][2].upcoming # None /\ mapping[k][2].upcoming[1].date = date

ScrapedFrom(page) ==
  /\ req.view = "results"
  /\ req.county = Some(EL_DORADO)
  /\ site = page

\* C8, as claimed: for the row ("06/01/2025 - 06/07/2025", <a>Lake Tahoe</a>,
\* "El Dorado", "Rainbow Trout") and the query "El Dorado", no error and a
\* mapping with "Lake Tahoe" and an event starting 2025-06-01.
C8_LinkOnlyRowIsIncluded ==
  ScrapedFrom(PAGE_TAHOE) =>
    /\ Scraped.error = None
    /\ Scraped.results # None
    /\ HasEventOn(Scraped.results[1], LAKE_TAHOE, <<2025, 6, 1>>)

\* C8, amended: that row is skipped (its water name, the text before the
\* link, is empty), so the call returns no error and an empty mapping; the
\* row whose second cell is Lake Tahoe <a>map</a> gives, with no error, a
\* mapping with "Lake Tahoe" and an event starting 2025-06-01.
C8_LinkOnlyRowIsSkipped ==
  /\ ScrapedFrom(PAGE_TAHOE) =>
       Scraped.error = None /\ Scraped.results = Some(<<>>)
  /\ ScrapedFrom(<< <<HEADER, ROW_TAHOE_TEXT>> >>) =>
       /\ Scraped.error = None
       /\ Scraped.results # None
       /\ Len(Scraped.results[1]) = 1
       /\ HasEventOn(Scraped.results[1], LAKE_TAHOE, <<2025, 6, 1>>)

\* the claim's row was scraped for "El Dorado" and the results page is empty
C8_Witness ==
  /\ ScrapedFrom(PAGE_TAHOE)
  /\ resp.template = "results.html"
  /\ resp.results = Some(<<>>)

\* C9, as claimed: with concurrent calls, an entry of GEOCODE_CACHE, once
\* written, is never replaced by a different value.
C9_EntryIsNeverReplaced ==
  [][\A k \in DOMAIN GEOCODE_CACHE :
       k \in DOMAIN GEOCODE_CACHE' /\ GEOCODE_CACHE'[k] = GEOCODE_CACHE[k]]_vars

\* C10, as claimed: a call served from the cache gets an entry that a call
\* for the same pair, up to case, has stored.
C10_NoEntryOfAnotherPair ==
  \A i \in CallsTo(trace, "geocode_water") :
    \A p \in DOMAIN geoLog :
      (/\ trace[i].net = <<>>
       /\ geoLog[p].net # <<>>
       /\ GeocodeKey(p[1], p[2]) = GeocodeKey(trace[i].args[1], trace[i].args[2]))
        => /\ Lower(p[1]) = Lower(trace[i].args[1])
           /\ Lower(p[2]) = Lower(trace[i].args[2])

=============================================================================
